---------------------------- MODULE Spec2Model ----------------------------
(***************************************************************************)
(* Model of claude-blocker's settings.json hook installer (setup.ts):      *)
(* setupHooks (load -> merge -> save), removeHooks (load -> prune -> save) *)
(* and the two detectors hasOurHook / removeOurHookEntries.                *)
(*                                                                         *)
(* JSON values are tagged records:                                         *)
(*   [t |-> "null"]            null                                        *)
(*   [t |-> "num", n |-> i]    a number                                    *)
(*   [t |-> "str", s |-> toks] a string, as the sequence of its pieces     *)
(*   [t |-> "arr", a |-> seq]  an array                                    *)
(*   [t |-> "obj", o |-> seq]  an object: its [k, v] members in insertion  *)
(*                             order (the order JSON.stringify writes)     *)
(*   [t |-> "undefined"]       what a missing property reads as            *)
(***************************************************************************)
EXTENDS Integers, Sequences, FiniteSets, TLC

VARIABLES defaultPort, \* the value of DEFAULT_PORT this build imports
          claudeDir,   \* whether the directory <home>/.claude exists
          file,        \* content of <home>/.claude/settings.json
          inflight,    \* the operation between its load and its save, if any
          last,        \* the last operation run:
                       \*   [op, before, wrote, ret, fault, raced]
          last2        \* the operation run before it

vars == <<defaultPort, claudeDir, file, inflight, last, last2>>

-----------------------------------------------------------------------------
(* Bounds of the model *)

\* longest hooks[event] array a generated settings document holds
MaxGroups == 2

-----------------------------------------------------------------------------
(* JSON values *)

Null == [t |-> "null"]
Undefined == [t |-> "undefined"]
Num(n) == [t |-> "num", n |-> n]
Str(s) == [t |-> "str", s |-> s]
Arr(a) == [t |-> "arr", a |-> a]
Obj(o) == [t |-> "obj", o |-> o]
KV(k, v) == [k |-> k, v |-> v]

\* typeof x === "object" && x !== null  (arrays are objects too)
IsObject(x) == x.t \in {"obj", "arr"}

\* Array.isArray(x)
IsArray(x) == x.t = "arr"

\* JavaScript truthiness, as used by `!x` and `x && ...`
Truthy(x) ==
  CASE x.t = "undefined" -> FALSE
    [] x.t = "null" -> FALSE
    [] x.t = "num" -> x.n # 0
    [] x.t = "str" -> x.s # <<>>
    [] OTHER -> TRUE

\* Object.keys(obj)
Keys(o) == [i \in 1..Len(o) |-> o[i].k]

\* `k in obj`
HasKey(o, k) == \E i \in 1..Len(o) : o[i].k = k

\* obj[k] on the member list of an object
GetKey(o, k) ==
  IF HasKey(o, k) THEN (CHOOSE m \in {o[i] : i \in 1..Len(o)} : m.k = k).v
  ELSE Undefined

\* x[k] / x.k for any value x that is not null or undefined: only a plain
\* object carries the members the code reads ("hooks", "command", event names)
Prop(x, k) == IF x.t = "obj" THEN GetKey(x.o, k) ELSE Undefined

\* obj[k] = v: an existing key keeps its place, a new key goes last
SetKey(o, k, v) ==
  IF HasKey(o, k) THEN [i \in 1..Len(o) |-> IF o[i].k = k THEN KV(k, v) ELSE o[i]]
  ELSE Append(o, KV(k, v))

KeyIsNot(m, k) == m.k # k

\* delete obj[k]
DeleteKey(o, k) ==
  LET Keep(m) == KeyIsNot(m, k) IN SelectSeq(o, Keep)

\* String.prototype.includes on strings given as sequences of pieces
Includes(s, sub) ==
  \E i \in 1..(Len(s) - Len(sub) + 1) : SubSeq(s, i, i + Len(sub) - 1) = sub

-----------------------------------------------------------------------------
(* The catalog *)

\* the listener port of @claude-blocker/shared
DEFAULT_PORT == 8765

HOOK_COMMAND ==
  << "curl -s -X POST http://", "localhost:", ToString(defaultPort), "/hook",
     " -H 'Content-Type: application/json' -d \"$(cat)\" > /dev/null 2>&1 &" >>

\* mutant: the detectors look for another port than the catalog embeds
SignatureOtherPort == << "localhost:", "8766", "/hook" >>

\* the literal both detectors look for
Signature == << "localhost:", "8765", "/hook" >>

\* mutant: the catalog lacks the Notification event
HookNamesWithoutNotification ==
  << "UserPromptSubmit", "PreToolUse", "Stop", "SessionStart", "SessionEnd" >>

\* Object.keys(HOOKS_CONFIG), in the order of the literal
HookNames ==
  << "UserPromptSubmit", "PreToolUse", "Stop", "SessionStart", "SessionEnd",
     "Notification" >>

CatalogEvents == {HookNames[i] : i \in 1..Len(HookNames)}

OurAction == Obj(<< KV("type", Str(<<"command">>)), KV("command", Str(HOOK_COMMAND)) >>)

\* HOOKS_CONFIG[name]: one group holding one action
HOOKS_CONFIG(name) ==
  CASE name = "PreToolUse" ->
         << Obj(<< KV("matcher", Str(<<"*">>)), KV("hooks", Arr(<<OurAction>>)) >>) >>
    [] name = "Notification" ->
         << Obj(<< KV("matcher", Str(<<"permission_prompt">>)),
                   KV("hooks", Arr(<<OurAction>>)) >>) >>
    [] OTHER -> << Obj(<< KV("hooks", Arr(<<OurAction>>)) >>) >>

-----------------------------------------------------------------------------
(* The detectors *)

\* the callback of both detectors: h is an object whose command is a string
\* that includes the signature
CarriesSignature(h) ==
  /\ IsObject(h)
  /\ Prop(h, "command").t = "str"
  /\ Includes(Prop(h, "command").s, Signature)

\* mutant: the presence check never finds our hook
hasOurHookNever(hooks) == FALSE

\* mutant: the presence check asks that every action of a group be ours
hasOurHookEvery(hooks) ==
  \E i \in 1..Len(hooks) :
    /\ IsObject(hooks[i])
    /\ IsArray(Prop(hooks[i], "hooks"))
    /\ \A j \in 1..Len(Prop(hooks[i], "hooks").a) :
         CarriesSignature(Prop(hooks[i], "hooks").a[j])

\* hasOurHook(hooks): some entry has some action carrying the signature
hasOurHook(hooks) ==
  \E i \in 1..Len(hooks) :
    /\ IsObject(hooks[i])
    /\ IsArray(Prop(hooks[i], "hooks"))
    /\ \E j \in 1..Len(Prop(hooks[i], "hooks").a) :
         CarriesSignature(Prop(hooks[i], "hooks").a[j])

\* e.hooks.every(...) of removeOurHookEntries; true of an empty array
hasOnlyOurHook(actions) ==
  \A j \in 1..Len(actions) : CarriesSignature(actions[j])

\* mutant: the filter drops what it cannot read as a group
KeepEntryDropsMalformed(entry) ==
  IF ~IsObject(entry) THEN FALSE
  ELSE IF ~IsArray(Prop(entry, "hooks")) THEN FALSE
  ELSE ~hasOnlyOurHook(Prop(entry, "hooks").a)

\* the filter callback of removeOurHookEntries: TRUE keeps the entry
KeepEntry(entry) ==
  IF ~IsObject(entry) THEN TRUE
  ELSE IF ~IsArray(Prop(entry, "hooks")) THEN TRUE
  ELSE ~hasOnlyOurHook(Prop(entry, "hooks").a)

\* mutant: one run removes only the first of our entries
removeOurHookEntriesFirstOnly(hooks) ==
  IF \A i \in 1..Len(hooks) : KeepEntry(hooks[i]) THEN hooks
  ELSE LET first == CHOOSE i \in 1..Len(hooks) :
                      ~KeepEntry(hooks[i]) /\ \A j \in 1..(i - 1) : KeepEntry(hooks[j])
       IN SubSeq(hooks, 1, first - 1) \o SubSeq(hooks, first + 1, Len(hooks))

removeOurHookEntries(hooks) == SelectSeq(hooks, KeepEntry)

-----------------------------------------------------------------------------
(* The settings file *)

Absent == [kind |-> "absent"]
Invalid == [kind |-> "invalid"]

\* JSON.stringify(settings, null, 2): the text of a plain JSON value, held as
\* the value it parses back to
JSONstringify(v) == [kind |-> "json", v |-> v]

EmptyDoc == Obj(<<>>)

\* mutant: a failed parse leaves no settings object behind
LoadForSetupNoFallback(f) == IF f.kind = "json" THEN f.v ELSE Null

\* lines 103-113 of setupHooks: {} when the file is missing or does not parse
LoadForSetup(f) == IF f.kind = "json" THEN f.v ELSE EmptyDoc

\* mutant: our entries replace the existing ones instead of following them
RECURSIVE MergeFromReplacing(_, _)
MergeFromReplacing(hooks, i) ==
  IF i > Len(HookNames) THEN hooks
  ELSE LET hookName == HookNames[i]
           ourEntries == HOOKS_CONFIG(hookName)
           existing == GetKey(hooks, hookName)
           next == IF ~Truthy(existing) \/ ~IsArray(existing)
                     THEN SetKey(hooks, hookName, Arr(ourEntries))
                   ELSE IF ~hasOurHook(existing.a)
                     THEN SetKey(hooks, hookName, Arr(ourEntries))
                   ELSE hooks
       IN MergeFromReplacing(next, i + 1)

\* mutant: our entries go before the existing ones
RECURSIVE MergeFromPrepending(_, _)
MergeFromPrepending(hooks, i) ==
  IF i > Len(HookNames) THEN hooks
  ELSE LET hookName == HookNames[i]
           ourEntries == HOOKS_CONFIG(hookName)
           existing == GetKey(hooks, hookName)
           next == IF ~Truthy(existing) \/ ~IsArray(existing)
                     THEN SetKey(hooks, hookName, Arr(ourEntries))
                   ELSE IF ~hasOurHook(existing.a)
                     THEN SetKey(hooks, hookName, Arr(ourEntries \o existing.a))
                   ELSE hooks
       IN MergeFromPrepending(next, i + 1)

\* the loop of setupHooks over Object.entries(HOOKS_CONFIG), from entry i on
RECURSIVE MergeFrom(_, _)
MergeFrom(hooks, i) ==
  IF i > Len(HookNames) THEN hooks
  ELSE LET hookName == HookNames[i]
           ourEntries == HOOKS_CONFIG(hookName)
           existing == GetKey(hooks, hookName)
           next == IF ~Truthy(existing) \/ ~IsArray(existing)
                     THEN SetKey(hooks, hookName, Arr(ourEntries))
                   ELSE IF ~hasOurHook(existing.a)
                     THEN SetKey(hooks, hookName, Arr(existing.a \o ourEntries))
                   ELSE hooks
       IN MergeFrom(next, i + 1)

\* lines 115-131 of setupHooks on the loaded settings object
Merge(settings) ==
  LET withHooks == IF ~Truthy(Prop(settings, "hooks"))
                     THEN SetKey(settings.o, "hooks", Obj(<<>>))
                   ELSE settings.o
      merged == MergeFrom(GetKey(withHooks, "hooks").o, 1)
  IN Obj(SetKey(withHooks, "hooks", Obj(merged)))

\* mutant: an emptied event keeps its key, holding an empty array
RECURSIVE PruneFromKeepingEmpty(_, _)
PruneFromKeepingEmpty(hooks, i) ==
  IF i > Len(HookNames) THEN hooks
  ELSE LET hookName == HookNames[i]
           cur == GetKey(hooks, hookName)
           next == IF Truthy(cur) /\ IsArray(cur)
                     THEN SetKey(hooks, hookName, Arr(removeOurHookEntries(cur.a)))
                   ELSE hooks
       IN PruneFromKeepingEmpty(next, i + 1)

\* the loop of removeHooks over Object.keys(HOOKS_CONFIG), from key i on
RECURSIVE PruneFrom(_, _)
PruneFrom(hooks, i) ==
  IF i > Len(HookNames) THEN hooks
  ELSE LET hookName == HookNames[i]
           cur == GetKey(hooks, hookName)
           next == IF Truthy(cur) /\ IsArray(cur)
                     THEN LET filtered == removeOurHookEntries(cur.a)
                          IN IF Len(filtered) = 0 THEN DeleteKey(hooks, hookName)
                             ELSE SetKey(hooks, hookName, Arr(filtered))
                   ELSE hooks
       IN PruneFrom(next, i + 1)

\* mutant: removal drops the whole hooks section
PruneDropsSection(settings) == Obj(DeleteKey(settings.o, "hooks"))

\* Object.keys(x).length for a truthy x: the members of an object, the
\* indices of an array or of a string, nothing for a number
KeyCount(x) ==
  CASE x.t = "obj" -> Len(Keys(x.o))
    [] x.t = "arr" -> Len(x.a)
    [] x.t = "str" -> Len(x.s)
    [] OTHER -> 0

\* lines 210-225 of removeHooks on a settings object whose hooks is truthy;
\* a hooks value that is no plain object has no member named as an event,
\* so the loop leaves it as it is
Prune(settings) ==
  LET hooks == Prop(settings, "hooks")
      pruned == IF hooks.t = "obj" THEN Obj(PruneFrom(hooks.o, 1)) ELSE hooks
  IN IF KeyCount(pruned) = 0 THEN Obj(DeleteKey(settings.o, "hooks"))
     ELSE Obj(SetKey(settings.o, "hooks", pruned))

-----------------------------------------------------------------------------
(* The settings documents a run may find on disk *)

\* a user's own action, and a user's own command that posts to our endpoint
UserAction == Obj(<< KV("type", Str(<<"command">>)), KV("command", Str(<<"echo done">>)) >>)
UserCurlAction ==
  Obj(<< KV("type", Str(<<"command">>)),
         KV("command", Str(<< "curl ", "localhost:", "8765", "/hook", " -d @-" >>)) >>)

\* the canonical group of an event; for an event outside the catalog, a group
\* of the same shape
OurGroup(name) ==
  IF name \in CatalogEvents THEN HOOKS_CONFIG(name)[1]
  ELSE Obj(<< KV("hooks", Arr(<<OurAction>>)) >>)

UserGroup == Obj(<< KV("matcher", Str(<<"Bash">>)), KV("hooks", Arr(<<UserAction>>)) >>)
MixedGroup == Obj(<< KV("hooks", Arr(<<OurAction, UserAction>>)) >>)
OurCustomGroup == Obj(<< KV("hooks", Arr(<<UserCurlAction, OurAction>>)) >>)
EmptyGroup == Obj(<< KV("matcher", Str(<<"Edit">>)), KV("hooks", Arr(<<>>)) >>)
NonObjectEntry == Str(<<"oops">>)
BadHooksGroup == Obj(<< KV("hooks", Str(<<"none">>)) >>)
BadActionGroup ==
  Obj(<< KV("hooks", Arr(<< Null, Obj(<< KV("type", Str(<<"command">>)), KV("command", Num(1)) >>) >>)) >>)

Groups(name) ==
  { OurGroup(name), UserGroup, MixedGroup, OurCustomGroup, EmptyGroup,
    NonObjectEntry, BadHooksGroup, BadActionGroup }

\* the arrays of at most n groups
GroupSeqs(name, n) == UNION { [1..k -> Groups(name)] : k \in 0..n }

\* the event names generated documents use: two of the catalog (one with a
\* matcher in its canonical group) and one outside it
DocEvents == { "PreToolUse", "Stop", "PostToolUse" }

\* what hooks[event] may hold: an array of at most n groups, or something
\* that is no array
EventValues(name, n) ==
  { Arr(s) : s \in GroupSeqs(name, n) } \cup { Null, Str(<<"off">>) }

\* what a second event of the same document holds: one group
SideValues(name) == { Arr(<<UserGroup>>), Arr(<<OurGroup(name)>>) }

\* hooks sections of at most two events and at most MaxGroups groups in all
HooksSections ==
  { <<>> }
  \cup { << KV(e, v) >> : e \in DocEvents,
                          v \in UNION { EventValues(x, MaxGroups) : x \in DocEvents } }
  \cup UNION { UNION { { << KV(e, v), KV(f, w) >>, << KV(f, w), KV(e, v) >> } :
                        v \in EventValues(e, MaxGroups - 1), w \in SideValues(f) } :
               e \in DocEvents, f \in DocEvents }

WellKeyed(o) == \A i, j \in 1..Len(o) : o[i].k = o[j].k => i = j

ModelKey == KV("model", Str(<<"opus">>))

\* a document whose hooks key holds no mapping yet
NullHooksDoc == Obj(<< KV("hooks", Null), ModelKey >>)

Documents ==
  { EmptyDoc, Obj(<<ModelKey>>), NullHooksDoc }
  \cup UNION { { Obj(<< KV("hooks", Obj(h)) >>),
                 Obj(<< ModelKey, KV("hooks", Obj(h)) >>),
                 Obj(<< KV("hooks", Obj(h)), ModelKey >>) } :
               h \in { x \in HooksSections : WellKeyed(x) } }

InitFiles == { Absent, Invalid } \cup { JSONstringify(d) : d \in Documents }

-----------------------------------------------------------------------------
(* The operations *)

NoOp == [op |-> "none", before |-> Absent, wrote |-> FALSE, ret |-> "none",
         fault |-> FALSE, raced |-> FALSE]

\* no operation is between its load and its save
Idle == [op |-> "none", loaded |-> Absent, raced |-> FALSE]

Init ==
  /\ defaultPort = DEFAULT_PORT
  /\ inflight = Idle
  /\ claudeDir \in BOOLEAN
  /\ file \in InitFiles
  /\ ~claudeDir => file = Absent
  /\ last = NoOp
  /\ last2 = NoOp

\* what setupHooks() does to the file content f it finds (lines 102-134):
\* the content it leaves, whether it wrote, and whether it ended in an
\* uncaught TypeError (the module is strict code: reading a property of null
\* and creating a property on a primitive both throw, outside any try).
\* Properties set on an array are not part of what JSON.stringify writes.
SetupResult(f) ==
  LET settings == LoadForSetup(f)
      hooks == Prop(settings, "hooks")
      Thrown == [file |-> f, wrote |-> FALSE, fault |-> TRUE]
      Written(v) == [file |-> JSONstringify(v), wrote |-> TRUE, fault |-> FALSE]
  IN CASE settings.t = "null" -> Thrown
       [] settings.t \in {"num", "str"} -> Thrown
       [] settings.t = "arr" -> Written(settings)
       [] OTHER ->
            IF ~Truthy(hooks) \/ hooks.t = "obj" THEN Written(Merge(settings))
            ELSE IF hooks.t = "arr" THEN Written(settings)
            ELSE Thrown

\* setupHooks(): ensure the directory, load, merge, write
Setup ==
  /\ inflight = Idle
  /\ claudeDir' = TRUE
  /\ file' = SetupResult(file).file
  /\ last' = [op |-> "setup", before |-> file, wrote |-> SetupResult(file).wrote,
               ret |-> "none", fault |-> SetupResult(file).fault, raced |-> FALSE]
  /\ last2' = last
  /\ UNCHANGED <<defaultPort, inflight>>

\* mutant: removeHooks() parses outside any try
RemoveResultNoCatch(f) ==
  IF f.kind = "absent" THEN [file |-> f, wrote |-> FALSE, fault |-> FALSE]
  ELSE IF f.kind = "invalid" THEN [file |-> f, wrote |-> FALSE, fault |-> TRUE]
  ELSE IF f.v.t = "null" THEN [file |-> f, wrote |-> FALSE, fault |-> TRUE]
  ELSE IF Truthy(Prop(f.v, "hooks"))
    THEN [file |-> JSONstringify(Prune(f.v)), wrote |-> TRUE, fault |-> FALSE]
  ELSE [file |-> f, wrote |-> FALSE, fault |-> FALSE]

\* what removeHooks() leaves in the file, whether it wrote, and whether it
\* ended in an uncaught fault: everything after existsSync runs inside the
\* try, so a failed parse and a TypeError on a null document end in the catch
RemoveResult(f) ==
  IF f.kind = "absent" THEN [file |-> f, wrote |-> FALSE, fault |-> FALSE]
  ELSE IF f.kind = "invalid" THEN [file |-> f, wrote |-> FALSE, fault |-> FALSE]
  ELSE IF f.v.t = "null" THEN [file |-> f, wrote |-> FALSE, fault |-> FALSE]
  ELSE IF Truthy(Prop(f.v, "hooks"))
    THEN [file |-> JSONstringify(Prune(f.v)), wrote |-> TRUE, fault |-> FALSE]
  ELSE [file |-> f, wrote |-> FALSE, fault |-> FALSE]

\* removeHooks()
Remove ==
  /\ inflight = Idle
  /\ file' = RemoveResult(file).file
  /\ last' = [op |-> "remove", before |-> file, wrote |-> RemoveResult(file).wrote,
               ret |-> "none", fault |-> RemoveResult(file).fault, raced |-> FALSE]
  /\ last2' = last
  /\ UNCHANGED <<defaultPort, claudeDir, inflight>>

Next == Setup \/ Remove

Spec == Init /\ [][Next]_vars

-----------------------------------------------------------------------------
(* The presence check, and settings files of any JSON content *)

\* mutant: the presence check asks for our hook under the event
areHooksConfiguredOurs(f) ==
  /\ f.kind = "json"
  /\ Prop(f.v, "hooks").t = "obj"
  /\ \E i \in 1..Len(HookNames) :
       /\ IsArray(GetKey(Prop(f.v, "hooks").o, HookNames[i]))
       /\ hasOurHook(GetKey(Prop(f.v, "hooks").o, HookNames[i]).a)

\* areHooksConfigured() on the file content f: false when the file is
\* missing, and false from the catch when the parse throws, when the document
\* is null (reading .hooks throws) and when hooks is a primitive (`in` throws)
areHooksConfigured(f) ==
  IF f.kind # "json" THEN FALSE
  ELSE IF f.v.t = "null" THEN FALSE
  ELSE LET hooks == Prop(f.v, "hooks")
       IN IF ~Truthy(hooks) THEN FALSE
          ELSE IF ~IsObject(hooks) THEN FALSE
          ELSE \E i \in 1..Len(HookNames) :
                 hooks.t = "obj" /\ HasKey(hooks.o, HookNames[i])

\* areHooksConfigured(), as main calls it
IsConfigured ==
  /\ inflight = Idle
  /\ last' = [op |-> "check", before |-> file, wrote |-> FALSE,
               ret |-> IF areHooksConfigured(file) THEN "true" ELSE "false",
               fault |-> FALSE, raced |-> FALSE]
  /\ last2' = last
  /\ UNCHANGED <<defaultPort, claudeDir, file, inflight>>

\* documents that are no object, and objects whose hooks is no mapping
OddDocuments ==
  { Null, Num(5), Str(<<"x">>), Arr(<<>>), Arr(<<Num(1)>>) }
  \cup { Obj(<< ModelKey, KV("hooks", h) >>) :
           h \in { Num(0), Num(1), Str(<<>>), Str(<<"on">>), Arr(<<>>),
                   Arr(<<Str(<<"Stop">>)>>) } }

\* documents whose hooks section holds at most one event
SmallDocuments ==
  { EmptyDoc, Obj(<<ModelKey>>), NullHooksDoc, Obj(<< KV("hooks", Obj(<<>>)) >>) }
  \cup UNION { { Obj(<< KV("hooks", Obj(<< KV(e, v) >>)) >>),
                 Obj(<< ModelKey, KV("hooks", Obj(<< KV(e, v) >>)) >>) } :
               e \in DocEvents,
               v \in UNION { EventValues(x, MaxGroups) : x \in DocEvents } }

WideFiles ==
  { Absent, Invalid } \cup { JSONstringify(d) : d \in OddDocuments \cup SmallDocuments }

InitWide ==
  /\ defaultPort = DEFAULT_PORT
  /\ inflight = Idle
  /\ claudeDir \in BOOLEAN
  /\ file \in WideFiles
  /\ ~claudeDir => file = Absent
  /\ last = NoOp
  /\ last2 = NoOp

NextWide == Setup \/ Remove \/ IsConfigured

\* setup, remove and the presence check on settings files of any content
SpecWide == InitWide /\ [][NextWide]_vars

-----------------------------------------------------------------------------
(* Another writer between an operation's load and its save *)

\* mutant: the save step serializes what the file holds now
SaveSourceReread(loaded, current) == current

\* what the save step serializes: the settings object built from the content
\* read at the start of the call, whatever the file holds by now
SaveSource(loaded, current) == loaded

\* setupHooks() up to its read of the file (lines 93-113)
BeginSetup ==
  /\ inflight = Idle
  /\ claudeDir' = TRUE
  /\ inflight' = [op |-> "setup", loaded |-> file, raced |-> FALSE]
  /\ UNCHANGED <<defaultPort, file, last, last2>>

\* setupHooks() from the merge to writeFileSync (lines 115-134)
EndSetup ==
  /\ inflight.op = "setup"
  /\ LET r == SetupResult(SaveSource(inflight.loaded, file))
     IN /\ file' = IF r.wrote THEN r.file ELSE file
        /\ last' = [op |-> "setup", before |-> inflight.loaded, wrote |-> r.wrote,
                     ret |-> "none", fault |-> r.fault, raced |-> inflight.raced]
  /\ last2' = last
  /\ inflight' = Idle
  /\ UNCHANGED <<defaultPort, claudeDir>>

\* removeHooks() up to its read of the file (lines 198-207)
BeginRemove ==
  /\ inflight = Idle
  /\ inflight' = [op |-> "remove", loaded |-> file, raced |-> FALSE]
  /\ UNCHANGED <<defaultPort, claudeDir, file, last, last2>>

\* removeHooks() from the prune to writeFileSync (lines 209-234)
EndRemove ==
  /\ inflight.op = "remove"
  /\ LET r == RemoveResult(SaveSource(inflight.loaded, file))
     IN /\ file' = IF r.wrote THEN r.file ELSE file
        /\ last' = [op |-> "remove", before |-> inflight.loaded, wrote |-> r.wrote,
                     ret |-> "none", fault |-> r.fault, raced |-> inflight.raced]
  /\ last2' = last
  /\ inflight' = Idle
  /\ UNCHANGED <<defaultPort, claudeDir>>

\* a key only the other writer sets
ThemeKey == KV("theme", Str(<<"dark">>))

\* what the other writer (the user, the agent tool) leaves in the file
OtherWrites ==
  { JSONstringify(Obj(<<ThemeKey>>)),
    JSONstringify(Obj(<< ThemeKey, KV("hooks", Obj(<< KV("Stop", Arr(<<UserGroup>>)) >>)) >>)),
    JSONstringify(Obj(<< KV("hooks", Obj(<< KV("Stop", Arr(<<OurGroup("Stop")>>)) >>)),
                         ThemeKey >>)) }

\* the other writer rewrites the file, at any moment
OtherWriter ==
  /\ claudeDir
  /\ \E f \in OtherWrites :
       /\ file' = f
       /\ last' = [op |-> "other", before |-> file, wrote |-> TRUE, ret |-> "none",
                    fault |-> FALSE, raced |-> FALSE]
  /\ last2' = last
  /\ inflight' = [inflight EXCEPT !.raced = (inflight.op # "none")]
  /\ UNCHANGED <<defaultPort, claudeDir>>

\* the settings files the interleaved runs start from
RaceFiles ==
  { Absent, Invalid }
  \cup { JSONstringify(d) :
           d \in { EmptyDoc, Obj(<<ModelKey>>), NullHooksDoc,
                   Obj(<< KV("hooks", Obj(<< KV("Stop", Arr(<<UserGroup>>)) >>)) >>),
                   Obj(<< ModelKey, KV("hooks", Obj(<< KV("Stop", Arr(<<OurGroup("Stop")>>)) >>)) >>),
                   Obj(<< KV("hooks", Obj(<< KV("PreToolUse", Arr(<<UserGroup, OurGroup("PreToolUse")>>)),
                                             KV("PostToolUse", Arr(<<UserGroup>>)) >>)) >>) } }

InitRace ==
  /\ defaultPort = DEFAULT_PORT
  /\ inflight = Idle
  /\ claudeDir \in BOOLEAN
  /\ file \in RaceFiles
  /\ ~claudeDir => file = Absent
  /\ last = NoOp
  /\ last2 = NoOp

NextRace == BeginSetup \/ EndSetup \/ BeginRemove \/ EndRemove \/ OtherWriter

\* setup and remove as a load step and a save step, with another writer
SpecRace == InitRace /\ [][NextRace]_vars

-----------------------------------------------------------------------------
(* Vocabulary of the properties *)

\* the document an operation works on: {} for a missing or unparseable file
DocOf(f) == IF f.kind = "json" THEN f.v ELSE EmptyDoc

\* the members of a document's hooks section (none when it has no section)
HooksMembers(d) == IF Prop(d, "hooks").t = "obj" THEN Prop(d, "hooks").o ELSE <<>>

\* hooks[name] of the document in f
EventValue(f, name) == GetKey(HooksMembers(DocOf(f)), name)

\* the groups of hooks[name]; none when it is absent or no array
GroupsAt(f, name) ==
  IF EventValue(f, name).t = "arr" THEN EventValue(f, name).a ELSE <<>>

\* the members of an object other than key k, in order
MembersBut(o, k) == LET Other(m) == KeyIsNot(m, k) IN SelectSeq(o, Other)

\* the members of a hooks section whose names are outside the catalog
ForeignEvents(o) == LET Foreign(m) == m.k \notin CatalogEvents IN SelectSeq(o, Foreign)

\* an action carrying the signature: an object with a string command that
\* contains the signature substring
ActionIsSigned(h) ==
  /\ h.t = "obj"
  /\ \E i \in 1..Len(h.o) :
       /\ h.o[i].k = "command"
       /\ h.o[i].v.t = "str"
       /\ Includes(h.o[i].v.s, Signature)

HasActionList(g) == g.t = "obj" /\ Prop(g, "hooks").t = "arr"

ActionsOf(g) == IF HasActionList(g) THEN Prop(g, "hooks").a ELSE <<>>

\* the strict check of the specification: a non-empty action list, all signed
GroupIsOurs(g) ==
  /\ HasActionList(g)
  /\ Len(ActionsOf(g)) > 0
  /\ \A j \in 1..Len(ActionsOf(g)) : ActionIsSigned(ActionsOf(g)[j])

\* the loose check: some action is signed
GroupIsLoose(g) ==
  /\ HasActionList(g)
  /\ \E j \in 1..Len(ActionsOf(g)) : ActionIsSigned(ActionsOf(g)[j])

\* a mixed group: a signed action beside one that is not
GroupIsMixed(g) ==
  /\ GroupIsLoose(g)
  /\ \E j \in 1..Len(ActionsOf(g)) : ~ActionIsSigned(ActionsOf(g)[j])

GroupIsNotOurs(g) == ~GroupIsOurs(g)

\* a group with no action list, or with an action that is not signed
SurelyNotOurs(g) ==
  \/ ~HasActionList(g)
  \/ \E j \in 1..Len(ActionsOf(g)) : ~ActionIsSigned(ActionsOf(g)[j])

NonOurs(groups) == SelectSeq(groups, GroupIsNotOurs)
OursCount(groups) == Len(SelectSeq(groups, GroupIsOurs))
MixedOf(groups) == SelectSeq(groups, GroupIsMixed)
AnyLoose(groups) == \E i \in 1..Len(groups) : GroupIsLoose(groups[i])

\* s is a subsequence of t: t with some elements left out
RECURSIVE IsSubseq(_, _)
IsSubseq(s, t) ==
  IF s = <<>> THEN TRUE
  ELSE IF t = <<>> THEN FALSE
  ELSE IF Head(s) = Head(t) THEN IsSubseq(Tail(s), Tail(t))
  ELSE IsSubseq(s, Tail(t))

SetupRan == last.op = "setup"
RemoveWrote == last.op = "remove" /\ last.wrote

-----------------------------------------------------------------------------
(* Properties *)

\* C1: merge is idempotent: a setup() run right after a setup() run leaves
\* the file content exactly as the first run wrote it.
MergeIdempotent ==
  (last2.op = "setup" /\ last.op = "setup") => file = last.before

\* two setups in a row, the first of which appended to a user's Stop group
MergeIdempotentWitness ==
  /\ last2.op = "setup"
  /\ last.op = "setup"
  /\ GroupsAt(last2.before, "Stop") = <<UserGroup>>
  /\ GroupsAt(last.before, "Stop") = <<UserGroup, OurGroup("Stop")>>
  /\ file = last.before

\* C2: round trip: setup() then remove() leaves, for every catalog event,
\* exactly the non-ours groups the document held before setup(), in order,
\* and no key for an event that held none.
RoundTripRestoresNonOurs ==
  (last2.op = "setup" /\ last.op = "remove") =>
    \A e \in CatalogEvents :
      /\ GroupsAt(file, e) = NonOurs(GroupsAt(last2.before, e))
      /\ NonOurs(GroupsAt(last2.before, e)) = <<>>
           => ~HasKey(HooksMembers(DocOf(file)), e)

\* C3: remove() drops a group of a catalog event if and only if the group is
\* ours by the strict check (non-empty action list, every action signed).
PruneRemovesExactlyOurs ==
  RemoveWrote =>
    \A e \in CatalogEvents :
      GroupsAt(file, e) = NonOurs(GroupsAt(last.before, e))

\* C4: merge non-interference: setup() leaves every top-level key other than
\* hooks and every event outside the catalog as it was, and every group an
\* array-valued catalog event held is still there, unmodified and in order.
MergeLeavesOthersAlone ==
  SetupRan =>
    /\ MembersBut(DocOf(file).o, "hooks") = MembersBut(DocOf(last.before).o, "hooks")
    /\ ForeignEvents(HooksMembers(DocOf(file)))
         = ForeignEvents(HooksMembers(DocOf(last.before)))
    /\ \A e \in CatalogEvents :
         EventValue(last.before, e).t = "arr"
           => IsSubseq(GroupsAt(last.before, e), GroupsAt(file, e))

\* setup() ran on a document with a foreign top-level key, an event outside
\* the catalog and a user's group under Stop, and appended to Stop
MergeLeavesOthersAloneWitness ==
  /\ SetupRan
  /\ HasKey(DocOf(last.before).o, "model")
  /\ HasKey(HooksMembers(DocOf(last.before)), "PostToolUse")
  /\ GroupsAt(last.before, "Stop") = <<UserGroup>>
  /\ Len(GroupsAt(file, "Stop")) = 2

\* C5: prune non-interference: a remove() that found a hooks section leaves
\* every top-level key other than hooks and every event outside the catalog
\* as it was (signed groups there included); the groups left in a catalog
\* event are groups it held, in their order; none is added.
PruneLeavesOthersAlone ==
  RemoveWrote =>
    /\ MembersBut(DocOf(file).o, "hooks") = MembersBut(DocOf(last.before).o, "hooks")
    /\ ForeignEvents(HooksMembers(DocOf(file)))
         = ForeignEvents(HooksMembers(DocOf(last.before)))
    /\ \A e \in CatalogEvents : IsSubseq(GroupsAt(file, e), GroupsAt(last.before, e))

\* remove() ran on a document with a foreign top-level key, our group under
\* an event outside the catalog and our group under Stop
PruneLeavesOthersAloneWitness ==
  /\ RemoveWrote
  /\ HasKey(DocOf(last.before).o, "model")
  /\ GroupsAt(last.before, "PostToolUse") = <<OurGroup("PostToolUse")>>
  /\ GroupsAt(last.before, "Stop") = <<OurGroup("Stop")>>
  /\ GroupsAt(file, "PostToolUse") = <<OurGroup("PostToolUse")>>
  /\ ~HasKey(HooksMembers(DocOf(file)), "Stop")

\* C6: strict-vs-loose asymmetry: setup() leaves a catalog event that holds
\* a mixed group as it is (nothing appended), and remove() leaves the mixed
\* groups of every catalog event in place, unchanged.
MixedGroupAsymmetry ==
  /\ SetupRan =>
       \A e \in CatalogEvents :
         MixedOf(GroupsAt(last.before, e)) # <<>>
           => EventValue(file, e) = EventValue(last.before, e)
  /\ last.op = "remove" =>
       \A e \in CatalogEvents :
         MixedOf(GroupsAt(file, e)) = MixedOf(GroupsAt(last.before, e))

\* setup() then remove() on a document whose Stop holds a user's group and a
\* mixed group: neither run changed Stop
MixedGroupAsymmetryWitness ==
  /\ last2.op = "setup"
  /\ last.op = "remove"
  /\ GroupsAt(last2.before, "Stop") = <<UserGroup, MixedGroup>>
  /\ GroupsAt(last.before, "Stop") = <<UserGroup, MixedGroup>>
  /\ GroupsAt(file, "Stop") = <<UserGroup, MixedGroup>>

\* C7 as claimed: from a document whose event holds at most one ours group,
\* setup() leaves exactly one ours group in the event.
SetupLeavesExactlyOneOurs ==
  SetupRan =>
    \A e \in CatalogEvents :
      OursCount(GroupsAt(last.before, e)) <= 1 => OursCount(GroupsAt(file, e)) = 1

\* C7, amended: from a document whose event holds at most one ours group,
\* setup() leaves exactly one ours group in the event, unless the event holds
\* no ours group but a group with a signed action (a mixed group): then the
\* event is left as it is, with none. The same holds of a second setup() in a
\* row, and setup() never changes the number of ours groups of an event that
\* has one.
SetupNeverDuplicates ==
  /\ SetupRan =>
       \A e \in CatalogEvents :
         LET before == GroupsAt(last.before, e)
             after == GroupsAt(file, e)
         IN /\ (OursCount(before) = 0 /\ ~AnyLoose(before)) => OursCount(after) = 1
            /\ (OursCount(before) = 0 /\ AnyLoose(before))
                 => EventValue(file, e) = EventValue(last.before, e)
            /\ OursCount(before) >= 1 => OursCount(after) = OursCount(before)
  /\ (last2.op = "setup" /\ SetupRan) =>
       \A e \in CatalogEvents :
         LET start == GroupsAt(last2.before, e)
         IN (OursCount(start) <= 1 /\ (OursCount(start) = 1 \/ ~AnyLoose(start)))
              => OursCount(GroupsAt(file, e)) = 1

\* two setups in a row on a document whose Stop held our group after a user's
SetupNeverDuplicatesWitness ==
  /\ last2.op = "setup"
  /\ SetupRan
  /\ GroupsAt(last2.before, "Stop") = <<UserGroup, OurGroup("Stop")>>
  /\ GroupsAt(file, "Stop") = <<UserGroup, OurGroup("Stop")>>

\* C8: per-event result of merge: the canonical sequence where the event
\* held no array; the existing groups followed by the canonical group where
\* no group passes the loose check; the event unchanged otherwise.
MergePerEvent ==
  SetupRan =>
    \A e \in CatalogEvents :
      LET old == EventValue(last.before, e)
      IN /\ old.t # "arr" => EventValue(file, e) = Arr(HOOKS_CONFIG(e))
         /\ (old.t = "arr" /\ ~AnyLoose(old.a))
              => EventValue(file, e) = Arr(old.a \o HOOKS_CONFIG(e))
         /\ (old.t = "arr" /\ AnyLoose(old.a)) => EventValue(file, e) = old

\* setup() on a document with one user group under Stop and a non-array under
\* PreToolUse: Stop is the user's group then ours, PreToolUse is ours alone
MergePerEventWitness ==
  /\ SetupRan
  /\ GroupsAt(last.before, "Stop") = <<UserGroup>>
  /\ GroupsAt(file, "Stop") = <<UserGroup, OurGroup("Stop")>>
  /\ GroupsAt(file, "SessionEnd") = <<OurGroup("SessionEnd")>>

\* C9: prune cleanup: after a remove() that wrote, no catalog event that was
\* an array is an empty array, there is no hooks key holding an empty
\* mapping, and the hooks key is still there when the section holds an event
\* outside the catalog, a catalog event that is no array, or a group that has
\* no action list or an action that is not signed.
PruneCleansUp ==
  RemoveWrote =>
    /\ \A e \in CatalogEvents :
         EventValue(last.before, e).t = "arr" => EventValue(file, e) # Arr(<<>>)
    /\ Prop(DocOf(file), "hooks") # Obj(<<>>)
    /\ ( \/ ForeignEvents(HooksMembers(DocOf(last.before))) # <<>>
         \/ \E e \in CatalogEvents :
              \/ EventValue(last.before, e).t \notin {"arr", "undefined"}
              \/ \E i \in 1..Len(GroupsAt(last.before, e)) :
                   SurelyNotOurs(GroupsAt(last.before, e)[i]) )
         => HasKey(DocOf(file).o, "hooks")

\* remove() on a document whose only event, Stop, held only our group: the
\* hooks key is gone
PruneCleansUpWitness ==
  /\ RemoveWrote
  /\ Keys(HooksMembers(DocOf(last.before))) = <<"Stop">>
  /\ GroupsAt(last.before, "Stop") = <<OurGroup("Stop")>>
  /\ ~HasKey(DocOf(file).o, "hooks")

\* C10: fresh install: setup() on a missing file or an empty document writes
\* a document with the hooks key alone, holding exactly the six catalog
\* events, each one group of one action whose command is the canonical one.
FreshInstall ==
  (SetupRan /\ last.before \in {Absent, JSONstringify(EmptyDoc)}) =>
    /\ claudeDir
    /\ file.kind = "json"
    /\ Keys(file.v.o) = <<"hooks">>
    /\ Len(HooksMembers(file.v)) = 6
    /\ \A e \in {"UserPromptSubmit", "PreToolUse", "Stop", "SessionStart",
                 "SessionEnd", "Notification"} :
         /\ Len(GroupsAt(file, e)) = 1
         /\ Len(ActionsOf(GroupsAt(file, e)[1])) = 1
         /\ Prop(ActionsOf(GroupsAt(file, e)[1])[1], "command") = Str(HOOK_COMMAND)

\* setup() ran where there was no settings file
FreshInstallWitness ==
  /\ SetupRan
  /\ last.before = Absent
  /\ file.kind = "json"
  /\ GroupsAt(file, "Notification") = HOOKS_CONFIG("Notification")

\* the six event names of the catalog, as the specification lists them
SixEvents ==
  << "UserPromptSubmit", "PreToolUse", "Stop", "SessionStart", "SessionEnd",
     "Notification" >>

\* file f parses to a document whose hooks section has a catalog event key
HasCatalogKey(f) ==
  /\ f.kind = "json"
  /\ \E i \in 1..Len(SixEvents) : HasKey(HooksMembers(DocOf(f)), SixEvents[i])

\* the document has no hooks section: it is no object, or has no hooks key,
\* or the key holds null
NoHooksSection(d) ==
  \/ d.t # "obj"
  \/ ~HasKey(d.o, "hooks")
  \/ Prop(d, "hooks") = Null

\* the document a fresh install writes
FreshDocument ==
  Obj(<< KV("hooks",
            Obj([i \in 1..Len(SixEvents) |->
                   KV(SixEvents[i], Arr(HOOKS_CONFIG(SixEvents[i])))])) >>)

\* C11: isConfigured() returns true if and only if the file exists, parses
\* and has a hooks section holding a key that is a catalog event name,
\* whatever the key holds; the call leaves the file as it was.
PresenceCheckByKey ==
  last.op = "check" =>
    /\ last.ret = "true" <=> HasCatalogKey(last.before)
    /\ file = last.before
    /\ ~last.wrote

\* isConfigured() answered true on a file whose only event key holds null,
\* and answered false (another state) on a section with a foreign event only
PresenceCheckByKeyWitness ==
  /\ last.op = "check"
  /\ last.ret = "true"
  /\ Keys(HooksMembers(DocOf(file))) = <<"Stop">>
  /\ EventValue(file, "Stop") = Null

\* C12: remove() writes nothing and leaves the content as it is when the
\* file is absent, does not parse, or parses to a document without a hooks
\* section; remove() never ends in a fault.
RemoveNoOp ==
  last.op = "remove" =>
    /\ ~last.fault
    /\ ( \/ last.before.kind \in {"absent", "invalid"}
         \/ NoHooksSection(DocOf(last.before)) )
         => (~last.wrote /\ file = last.before)

\* remove() ran on a file holding the JSON text null, and wrote nothing
RemoveNoOpWitness ==
  /\ last.op = "remove"
  /\ last.before = JSONstringify(Null)
  /\ ~last.wrote
  /\ ~last.fault
  /\ file = JSONstringify(Null)

\* C13: invalid JSON recovery: on a file that does not parse, isConfigured()
\* returns false, and setup() overwrites it with the merge of the empty
\* document: the six canonical events and nothing of the old content.
InvalidJsonRecovery ==
  /\ (last.op = "check" /\ last.before = Invalid) => last.ret = "false"
  /\ (SetupRan /\ last.before = Invalid) =>
       /\ ~last.fault
       /\ last.wrote
       /\ file = JSONstringify(FreshDocument)

\* the presence check then setup() on a file that does not parse
InvalidJsonRecoveryWitness ==
  /\ last2.op = "check"
  /\ last2.before = Invalid
  /\ last2.ret = "false"
  /\ SetupRan
  /\ last.before = Invalid
  /\ file.kind = "json"

\* C14: whatever the settings file holds, setup() ends without an uncaught
\* fault and writes a document in which every catalog event is present.
SetupNeverFaults ==
  SetupRan =>
    /\ ~last.fault
    /\ last.wrote
    /\ \A i \in 1..Len(SixEvents) : HasKey(HooksMembers(DocOf(file)), SixEvents[i])

\* C19: after a setup() that completed normally on a file that was absent,
\* unparseable or a JSON object, the next isConfigured() returns true.
SetupThenConfigured ==
  ( /\ last2.op = "setup"
    /\ ~last2.fault
    /\ (last2.before.kind \in {"absent", "invalid"} \/ DocOf(last2.before).t = "obj")
    /\ last.op = "check" )
    => last.ret = "true"

\* an entry that is no object, or a group whose hooks is no array
MalformedEntry(g) == g.t # "obj" \/ Prop(g, "hooks").t # "arr"

\* an action that is no object or has no string command
MalformedAction(h) == h.t # "obj" \/ Prop(h, "command").t # "str"

\* a group with an action list holding a malformed action
HasMalformedAction(g) ==
  /\ ~MalformedEntry(g)
  /\ \E j \in 1..Len(ActionsOf(g)) : MalformedAction(ActionsOf(g)[j])

\* an entry that is malformed, or a group all of whose actions are
OnlyMalformed(g) ==
  \/ MalformedEntry(g)
  \/ \A j \in 1..Len(ActionsOf(g)) : MalformedAction(ActionsOf(g)[j])

\* C15: malformed hook structures count as not ours and raise no error:
\* setup() appends to a catalog event whose entries are all malformed (the
\* loose check is false for them), remove() keeps every malformed entry and
\* every group with a malformed action, and leaves a catalog event that is
\* no array as it is.
MalformedIsNotOurs ==
  /\ SetupRan =>
       /\ ~last.fault
       /\ \A e \in CatalogEvents :
            LET old == EventValue(last.before, e)
            IN (old.t = "arr" /\ \A i \in 1..Len(old.a) : OnlyMalformed(old.a[i]))
                 => EventValue(file, e) = Arr(old.a \o HOOKS_CONFIG(e))
  /\ last.op = "remove" =>
       /\ ~last.fault
       /\ \A e \in CatalogEvents :
            /\ SelectSeq(GroupsAt(file, e), MalformedEntry)
                 = SelectSeq(GroupsAt(last.before, e), MalformedEntry)
            /\ SelectSeq(GroupsAt(file, e), HasMalformedAction)
                 = SelectSeq(GroupsAt(last.before, e), HasMalformedAction)
            /\ EventValue(last.before, e).t \notin {"arr", "undefined"}
                 => EventValue(file, e) = EventValue(last.before, e)

\* remove() ran on a Stop array of an entry that is no object, a group with
\* malformed actions and our group: only ours went
MalformedIsNotOursWitness ==
  /\ RemoveWrote
  /\ GroupsAt(last.before, "Stop") = <<NonObjectEntry, OurGroup("Stop")>>
  /\ GroupsAt(file, "Stop") = <<NonObjectEntry>>

\* C18: prune is idempotent: a remove() run right after a remove() run
\* leaves the file content as the first run left it.
PruneIdempotent ==
  (last2.op = "remove" /\ last.op = "remove") => file = last.before

\* two removes in a row on a document whose Stop held two groups of ours and
\* nothing else: the first removed them and the hooks key, the second wrote
\* nothing
PruneIdempotentWitness ==
  /\ last2.op = "remove"
  /\ last2.wrote
  /\ OursCount(GroupsAt(last2.before, "Stop")) = 2
  /\ last.op = "remove"
  /\ ~last.wrote
  /\ file = last.before
  /\ ~HasKey(DocOf(file).o, "hooks")

-----------------------------------------------------------------------------
(* Builds with another DEFAULT_PORT *)

\* the values of DEFAULT_PORT considered: the one the detectors' literal
\* names, and another
Ports == { DEFAULT_PORT, DEFAULT_PORT + 1 }

PortFiles == { Absent } \cup { JSONstringify(d) : d \in SmallDocuments }

InitPorts ==
  /\ defaultPort \in Ports
  /\ inflight = Idle
  /\ claudeDir = TRUE
  /\ file \in PortFiles
  /\ last = NoOp
  /\ last2 = NoOp

\* setup() while no catalog event holds more than MaxGroups groups: with a
\* port the detectors do not name, every run appends one more
SetupWithRoom ==
  /\ \A i \in 1..Len(SixEvents) : Len(GroupsAt(file, SixEvents[i])) <= MaxGroups
  /\ Setup

NextPorts == SetupWithRoom \/ Remove

\* setup and remove in a build whose DEFAULT_PORT is any of Ports
SpecPorts == InitPorts /\ [][NextPorts]_vars


LastWriterWins ==
  (last.raced /\ last.wrote) =>
    /\ MembersBut(DocOf(file).o, "hooks") = MembersBut(DocOf(last.before).o, "hooks")
    /\ last.op = "setup" => file = JSONstringify(Merge(LoadForSetup(last.before)))
    /\ last.op = "remove" => file = JSONstringify(Prune(DocOf(last.before)))

\* setup() loaded a document without the theme key, the other writer then
\* wrote one with it, and setup()'s write left a file without it
LastWriterWinsWitness ==
  /\ last.op = "setup"
  /\ last.raced
  /\ last.wrote
  /\ last2.op = "other"
  /\ last2.before = last.before
  /\ HasKey(DocOf(last.before).o, "model")
  /\ ~HasKey(DocOf(file).o, "theme")
  /\ HasKey(DocOf(file).o, "model")

=============================================================================
